---------------------------- MODULE Spec2Model ----------------------------
(***************************************************************************)
(* A model of mysqldump.Dump (src/mysqldump.go).                           *)
(*                                                                         *)
(* Dump is sequential.  One action of the model is one database round trip *)
(* of Dump together with the code that follows it up to the next round     *)
(* trip (or one application of a functional option).  The destination text *)
(* is modelled as the sequence of the statements and banners written to    *)
(* the bufio.Writer; every element records the statement kind, the region  *)
(* of Dump that wrote it, the object name and its numeric payload.         *)
(*                                                                         *)
(* The database is an external collaborator: every round trip may fail,    *)
(* and the results of the COUNT query and of the row query are drawn      *)
(* independently of each other.                                            *)
(*                                                                         *)
(* Spec is Dump on a server that holds the views of the dumped database    *)
(* only, SpecServer is Dump on a server with a view in another database,   *)
(* SpecData is writeTableData on large result sets, SpecEscape is the text *)
(* of one INSERT statement, and SpecSource is the restore side (Source),   *)
(* which follows section 4.5 of the specification.                         *)
(***************************************************************************)
EXTENDS Naturals, Sequences, FiniteSets, TLC

\* ------------------------------------------------------------------ bounds

\* most options passed to one Dump call
MaxOpts == 3
\* longest explicit list given to WithTables
MaxList == 2
\* most rows a SELECT * returns in Spec
MaxRows == 1
\* SpecData draws result sets of up to MaxBatches full statements (+1 row)
MaxBatches == 2

\* longest cell value of SpecEscape
MaxLen == 3

\* rowNumber >= 600: rows per INSERT statement
BatchSize == 600

\* ------------------------------------------------------- the database

\* base tables and views of the active database; SHOW TABLES lists both
BaseTables == {"t1", "t2"}
DbViews == {"v1"}
Names == BaseTables \cup DbViews
\* its foreign keys, <<referencing, referenced>>: t1 references t2
ForeignKeys == {<<"t1", "t2">>}
dbName == "db"

VARIABLES
    pc,              \* position in Dump
    o,               \* dumpOption
    allTableOpt,     \* history: WithAllTable was among the options passed
    nOpts,           \* options applied so far (the range loop of line 109)
    out,             \* text written to buf, one element per statement/banner
    dest,            \* text buf.Flush() handed to o.writer
    tables,          \* Dump's local tables
    views,           \* Dump's local views
    idx,             \* index of the range loop over tables / over views
    allTotalRows,    \* Dump's allTotalRows
    totalRow,        \* writeTableData's totalRow
    resultRows,      \* rows held by the open SELECT * result set
    cursor,          \* rows rows.Next() has delivered
    rowNumber,       \* writeTableData's rowNumber
    dataValueString, \* writeTableData's dataValueString
    openRows,        \* *sql.Rows opened and not closed
    dbFailed,        \* history: some database round trip has failed
    ret,             \* Dump's return value: "none" (running), "nil", "err"
    data,            \* text level: the cells rows.Scan read for one row
    tupleTexts,      \* text level: dataValueString, one text per tuple
    stmtText,        \* text level: the statement writeDataInsertToBuffer wrote
    mergeInsert,     \* Source: the merge size of WithMergeInsert (0: none)
    input,           \* Source: the statements of the stream read
    pos,             \* Source: statements read so far
    pending,         \* Source: tuples accumulated for the next merged INSERT
    executed         \* Source: the statements executed, in order

optVars == <<o, allTableOpt, nOpts>>
loopVars == <<tables, views, idx, allTotalRows>>
dataVars == <<totalRow, resultRows, cursor, rowNumber, dataValueString>>
textVars == <<data, tupleTexts, stmtText>>
sourceVars == <<mergeInsert, input, pos, pending, executed>>
vars == <<pc, o, allTableOpt, nOpts, out, dest, tables, views, idx,
          allTotalRows, totalRow, resultRows, cursor, rowNumber,
          dataValueString, openRows, dbFailed, ret, data, tupleTexts, stmtText,
          mergeInsert, input, pos, pending, executed>>

\* ------------------------------------------------------------ helpers

SeqsUpTo(S, n) == UNION {[1..k -> S] : k \in 0..n}

Range(s) == {s[i] : i \in 1..Len(s)}

\* slices.Index
Index(s, x) ==
    IF \E i \in 1..Len(s) : s[i] = x
    THEN CHOOSE i \in 1..Len(s) : s[i] = x /\ \A j \in 1..(i - 1) : s[j] # x
    ELSE 0

\* slices.Delete(s, i, i+1), the slice it returns
Delete(s, i) == SubSeq(s, 1, i - 1) \o SubSeq(s, i + 1, Len(s))

\* the concatenation of the sequences of ss
RECURSIVE Flatten(_)
Flatten(ss) == IF ss = <<>> THEN <<>> ELSE Head(ss) \o Flatten(Tail(ss))

\* ------------------------------------------------------- output text

\* one element of the output: kind, region of Dump that wrote it
\* ("pre", "tab", "mid", "view", "foot"), object name, numbers
Ev(k, ph, n, v) == [k |-> k, ph |-> ph, n |-> n, v |-> v]

\* lines 132-136
Header == <<Ev("HEADER", "pre", dbName, <<>>)>>

\* lines 137-140 / 228-231
BeginTransaction(opt, ph) ==
    IF opt.withTransaction
    THEN <<Ev("AUTOCOMMIT0", ph, "", <<>>), Ev("START", ph, "", <<>>)>>
    ELSE <<>>

\* lines 208-211 / 235-238
CommitTransaction(opt, ph) ==
    IF opt.withTransaction
    THEN <<Ev("COMMIT", ph, "", <<>>), Ev("AUTOCOMMIT1", ph, "", <<>>)>>
    ELSE <<>>

\* lines 141-143
UseStatement(opt) ==
    IF opt.withUseDatabase THEN <<Ev("USE", "pre", dbName, <<>>)>> ELSE <<>>

\* Preamble with USE written ahead of the transaction preamble
PreambleUseFirst(opt) ==
    Header \o UseStatement(opt) \o BeginTransaction(opt, "pre")
        \o <<Ev("FK0", "pre", "", <<>>)>>

\* Preamble that leaves the foreign-key checks on
PreambleChecksLeftOn(opt) ==
    Header \o BeginTransaction(opt, "pre") \o UseStatement(opt)

\* lines 131-144
Preamble(opt) ==
    Header \o BeginTransaction(opt, "pre") \o UseStatement(opt)
        \o <<Ev("FK0", "pre", "", <<>>)>>

\* DropTable reading the flag of the views
DropTableByViewFlag(opt, table) ==
    IF opt.isDropView THEN <<Ev("DROP_TABLE", "tab", table, <<>>)>> ELSE <<>>

\* lines 188-190
DropTable(opt, table) ==
    IF opt.isDropTable THEN <<Ev("DROP_TABLE", "tab", table, <<>>)>> ELSE <<>>

\* lines 216-218
DropView(opt, view) ==
    IF opt.isDropView THEN <<Ev("DROP_VIEW", "view", view, <<>>)>> ELSE <<>>

\* lines 326-328
StructBanner(ph, table) == <<Ev("STRUCT_BANNER", ph, table, <<>>)>>

\* line 333
CreateStatement(ph, table) == <<Ev("CREATE", ph, table, <<>>)>>

\* line 198
LockTables(table) == <<Ev("LOCK", "tab", table, <<>>)>>

\* line 200
UnlockTables == <<Ev("UNLOCK", "tab", "", <<>>)>>

\* lines 345-347
DataBanner(table, n) == <<Ev("DATA_BANNER", "tab", table, <<n>>)>>

\* lines 409-416: one INSERT statement holding the given tuples
WriteDataInsertToBuffer(table, tuples) == <<Ev("INSERT", "tab", table, tuples)>>

\* line 405
DataEnd == <<Ev("NEWLINE", "tab", "", <<>>)>>

\* Footer without the transaction opened again after the views
FooterWithoutReopen(opt, nTables, nRows) ==
    <<Ev("FK1", "foot", "", <<>>)>>
        \o CommitTransaction(opt, "foot")
        \o <<Ev("FOOTER", "foot", "", <<nTables, nRows>>)>>

\* lines 227-246
Footer(opt, nTables, nRows) ==
    BeginTransaction(opt, "foot") \o <<Ev("FK1", "foot", "", <<>>)>>
        \o CommitTransaction(opt, "foot")
        \o <<Ev("FOOTER", "foot", "", <<nTables, nRows>>)>>

\* ------------------------------------------------------------ options

\* the zero dumpOption of line 107
ZeroOption ==
    [isData |-> FALSE, tables |-> <<>>, views |-> <<>>, isAllTable |-> FALSE,
     isDropTable |-> FALSE, isDropView |-> FALSE, isAllViews |-> FALSE,
     withUseDatabase |-> FALSE, withTransaction |-> FALSE]

\* the explicit lists name one base table and the view, in any order and
\* with repetitions
ListNames == {"t1", "v1"}
TableLists == SeqsUpTo(ListNames, MaxList)
ViewLists == SeqsUpTo(DbViews, 1)

Init ==
    /\ pc = "opts"
    /\ o = ZeroOption
    /\ allTableOpt = FALSE
    /\ nOpts = 0
    /\ out = <<>>
    /\ dest = <<>>
    /\ tables = <<>>
    /\ views = <<>>
    /\ idx = 0
    /\ allTotalRows = 0
    /\ totalRow = 0
    /\ resultRows = 0
    /\ cursor = 0
    /\ rowNumber = 0
    /\ dataValueString = <<>>
    /\ openRows = 0
    /\ dbFailed = FALSE
    /\ ret = "none"
    /\ data = <<>>
    /\ tupleTexts = <<>>
    /\ stmtText = <<>>
    /\ mergeInsert = 0
    /\ input = <<>>
    /\ pos = 0
    /\ pending = <<>>
    /\ executed = <<>>

\* one iteration of the loop of lines 109-111 with the given mutator
ApplyOption(new, allTable) ==
    /\ pc = "opts"
    /\ nOpts < MaxOpts
    /\ o' = new
    /\ allTableOpt' = (allTableOpt \/ allTable)
    /\ nOpts' = nOpts + 1
    /\ UNCHANGED <<textVars, sourceVars>>
    /\ UNCHANGED <<pc, out, dest, loopVars, dataVars, openRows, dbFailed, ret>>

WithDropTable == ApplyOption([o EXCEPT !.isDropTable = TRUE], FALSE)
WithDropViews == ApplyOption([o EXCEPT !.isDropView = TRUE], FALSE)
WithData == ApplyOption([o EXCEPT !.isData = TRUE], FALSE)
WithTables == \E ts \in TableLists : ApplyOption([o EXCEPT !.tables = ts], FALSE)
WithViews == \E vs \in ViewLists : ApplyOption([o EXCEPT !.views = vs], FALSE)
WithAllTable == ApplyOption([o EXCEPT !.isAllTable = TRUE], TRUE)
WithUseDatabase == ApplyOption([o EXCEPT !.withUseDatabase = TRUE], FALSE)
WithTransaction == ApplyOption([o EXCEPT !.withTransaction = TRUE], FALSE)
WithAllViews == ApplyOption([o EXCEPT !.isAllViews = TRUE], FALSE)

\* DefaultAllTable with the explicit list taking precedence
DefaultAllTableExplicitWins(opt) == Len(opt.tables) = 0

\* lines 113-116: no explicit table means all tables
DefaultAllTable(opt) == opt.isAllTable \/ Len(opt.tables) = 0

\* lines 113-144: defaults, header, preamble
DumpBegin ==
    /\ pc = "opts"
    /\ o' = [o EXCEPT !.isAllTable = DefaultAllTable(o)]
    /\ nOpts' = 0
    /\ out' = out \o Preamble(o)
    /\ pc' = "use"
    /\ UNCHANGED <<textVars, sourceVars>>
    /\ UNCHANGED <<allTableOpt, dest, loopVars, dataVars, openRows, dbFailed, ret>>

\* ------------------------------------------------------------ Dump

\* Return with the buffer flushed on the successful path only
ReturnFlushOnSuccess(value, text) ==
    /\ pc' = "done"
    /\ ret' = value
    /\ dest' = IF value = "nil" THEN text ELSE dest

\* a return of Dump: the deferred buf.Flush of line 129 (and line 247)
Return(value, text) ==
    /\ pc' = "done"
    /\ ret' = value
    /\ dest' = text

\* lines 145-148: db.Exec("USE ...")
ExecUse ==
    /\ pc = "use"
    /\ \E ok \in BOOLEAN :
        IF ok
        THEN /\ pc' = "tables"
             /\ UNCHANGED <<ret, dest, dbFailed>>
        ELSE /\ Return("err", out)
             /\ dbFailed' = TRUE
    /\ UNCHANGED <<textVars, sourceVars>>
    /\ UNCHANGED <<optVars, out, loopVars, dataVars, openRows>>

\* lines 287-305: what SHOW TABLES lists, base tables and views by name
TableListing == <<"t1", "t2", "v1">>

\* lines 306-322: the TABLE_NAME of every row of TABLE_TYPE 'VIEW' in
\* information_schema.TABLES, on a server whose only views are those of the
\* active database
ViewListing == <<"v1">>

\* lines 306-322: the same query on a server where another database has a
\* view named t2; the query has no TABLE_SCHEMA condition
ServerViewListing == <<"t2", "v1">>

\* lines 150-161: the table set Dump starts from
ResolveTables ==
    /\ pc = "tables"
    /\ IF o.isAllTable
       THEN \E ok \in BOOLEAN :
            IF ok
            THEN /\ tables' = TableListing
                 /\ pc' = "views"
                 /\ UNCHANGED <<ret, dest, dbFailed>>
            ELSE /\ Return("err", out)
                 /\ dbFailed' = TRUE
                 /\ UNCHANGED tables
       ELSE /\ tables' = o.tables
            /\ pc' = "views"
            /\ UNCHANGED <<ret, dest, dbFailed>>
    /\ UNCHANGED <<textVars, sourceVars>>
    /\ UNCHANGED <<optVars, out, views, idx, allTotalRows, dataVars, openRows>>

\* lines 167-174: every listed view is deleted from tables where slices.Index
\* finds it.  slices.Delete works in place: the result shares its backing
\* array with the argument, the kept elements move down and the vacated tail
\* is zeroed.  [slice |-> tables afterwards, backing |-> the array afterwards]
RECURSIVE RemoveViews(_, _, _, _)
RemoveViews(slice, backing, tmp, k) ==
    IF k > Len(tmp) THEN [slice |-> slice, backing |-> backing]
    ELSE LET index == Index(slice, tmp[k]) IN
         IF index # 0
         THEN LET kept == Delete(slice, index) IN
              RemoveViews(kept,
                          kept \o <<"">> \o SubSeq(backing, Len(slice) + 1, Len(backing)),
                          tmp, k + 1)
         ELSE RemoveViews(slice, backing, tmp, k + 1)

\* lines 163-182: list the views (getAllViews answers listing), take them
\* out of tables, choose the views
ResolveViews(listing) ==
    /\ pc = "views"
    /\ \E ok \in BOOLEAN :
        LET tmp == IF ok THEN listing ELSE <<>>
            removed == RemoveViews(tables, tables, tmp, 1)
        IN  /\ tables' = removed.slice
            /\ o' = IF o.isAllTable THEN o ELSE [o EXCEPT !.tables = removed.backing]
            /\ dbFailed' = (dbFailed \/ ~ok)
            /\ IF o.isAllViews /\ ~ok
               THEN /\ Return("err", out)
                    /\ UNCHANGED <<views, idx>>
               ELSE /\ views' = IF o.isAllViews THEN tmp ELSE o.views
                    /\ idx' = 1
                    /\ pc' = "tloop"
                    /\ UNCHANGED <<ret, dest>>
    /\ UNCHANGED <<textVars, sourceVars>>
    /\ UNCHANGED <<allTableOpt, nOpts, out, allTotalRows, dataVars, openRows>>

\* lines 252-285: how the SHOW CREATE TABLE round trip ends: "ok", or the
\* query fails, or Columns fails, or it gives fewer than 2 columns ("few"),
\* or there is no row, or Scan fails
CreateResults == {"ok", "query", "columns", "few", "notfound", "scan"}

\* lines 259-281: rows.Close is called on the "ok" path only.  Columns fails
\* on a result set that is closed already, and a rows.Next() that returns
\* false has closed the result set itself; with fewer than 2 columns and with
\* a failed Scan the result set is still open when getCreateTableSQL returns
LeavesRowsOpen(r) == r \in {"few", "scan"}

\* lines 324-335
WriteTableStruct(ph, table, r) ==
    StructBanner(ph, table) \o (IF r = "ok" THEN CreateStatement(ph, table) ELSE <<>>)

\* lines 186-198: one table up to its create statement and LOCK TABLES
TableStruct ==
    /\ pc = "tloop"
    /\ idx <= Len(tables)
    /\ \E r \in CreateResults :
        LET table == tables[idx]
            text == out \o DropTable(o, table) \o WriteTableStruct("tab", table, r)
        IN  IF r = "ok"
            THEN /\ out' = IF o.isData THEN text \o LockTables(table) ELSE text
                 /\ pc' = IF o.isData THEN "count" ELSE "tloop"
                 /\ idx' = IF o.isData THEN idx ELSE idx + 1
                 /\ UNCHANGED <<ret, dest, dbFailed, openRows>>
            ELSE /\ out' = text
                 /\ Return("err", text)
                 /\ dbFailed' = TRUE
                 /\ openRows' = IF LeavesRowsOpen(r) THEN openRows + 1 ELSE openRows
                 /\ UNCHANGED idx
    /\ UNCHANGED <<textVars, sourceVars>>
    /\ UNCHANGED <<optVars, tables, views, allTotalRows, dataVars>>

\* -------------------------------------------------------- writeTableData

\* what SELECT COUNT(*) may answer and how many rows SELECT * may return
RowCounts == 0..MaxRows
CountAnswers == 0..MaxRows

\* row k of a result set, as the tuple text built for it (lines 372-392)
Tuple(k) == k

\* lines 201-205 after writeTableData returned without error
TableDone(text) ==
    /\ out' = text \o UnlockTables
    /\ allTotalRows' = allTotalRows + totalRow
    /\ idx' = idx + 1
    /\ pc' = "tloop"
    /\ UNCHANGED <<ret, dest>>

\* TableFailed with the error returned ahead of UNLOCK TABLES
TableFailedBeforeUnlock(text) ==
    /\ out' = text
    /\ allTotalRows' = allTotalRows
    /\ Return("err", text)
    /\ dbFailed' = TRUE
    /\ UNCHANGED idx

\* lines 200-204 after writeTableData returned an error
TableFailed(text) ==
    /\ out' = text \o UnlockTables
    /\ allTotalRows' = allTotalRows + totalRow
    /\ Return("err", text \o UnlockTables)
    /\ dbFailed' = TRUE
    /\ UNCHANGED idx

\* lines 340-347: the COUNT query; the error of row.Scan is dropped and
\* totalRow keeps its zero value
CountRows(answers) ==
    /\ pc = "count"
    /\ \E ok \in BOOLEAN :
       \E c \in IF ok THEN answers ELSE {0} :
        /\ totalRow' = c
        /\ dbFailed' = (dbFailed \/ ~ok)
        /\ out' = out \o DataBanner(tables[idx], c)
    /\ resultRows' = 0
    /\ cursor' = 0
    /\ rowNumber' = 0
    /\ dataValueString' = <<>>
    /\ pc' = "query"
    /\ UNCHANGED <<textVars, sourceVars>>
    /\ UNCHANGED <<optVars, dest, loopVars, openRows, ret>>

\* lines 349-368 (and 405-406 when totalRow is 0): the row query
QueryRows(counts) ==
    /\ pc = "query"
    /\ \E r \in {"ok", "query", "columns"} :
        IF r = "ok"
        THEN \E m \in counts :
             /\ resultRows' = m
             /\ IF totalRow > 0
                THEN /\ pc' = "scan"
                     /\ openRows' = openRows + 1
                     /\ UNCHANGED <<out, dest, ret, idx, allTotalRows>>
                ELSE /\ TableDone(out \o DataEnd)
                     /\ UNCHANGED openRows
             /\ UNCHANGED dbFailed
        ELSE /\ TableFailed(out)
             /\ UNCHANGED <<resultRows, openRows>>
    /\ UNCHANGED <<textVars, sourceVars>>
    /\ UNCHANGED <<optVars, tables, views, totalRow, cursor, rowNumber,
                   dataValueString>>

\* lines 371-399: rows.Next() delivers a row; Scan reads it or fails
RowsNext ==
    /\ pc = "scan"
    /\ cursor < resultRows
    /\ \E ok \in BOOLEAN :
        IF ok
        THEN LET batch == Append(dataValueString, Tuple(cursor + 1)) IN
             /\ cursor' = cursor + 1
             /\ IF rowNumber + 1 >= BatchSize
                THEN /\ out' = out \o WriteDataInsertToBuffer(tables[idx], batch)
                     /\ rowNumber' = 0
                     /\ dataValueString' = <<>>
                ELSE /\ rowNumber' = rowNumber + 1
                     /\ dataValueString' = batch
                     /\ UNCHANGED out
             /\ UNCHANGED <<pc, ret, dest, dbFailed, openRows, idx, allTotalRows>>
        ELSE /\ TableFailed(out)
             /\ openRows' = openRows - 1
             /\ UNCHANGED <<cursor, rowNumber, dataValueString>>
    /\ UNCHANGED <<textVars, sourceVars>>
    /\ UNCHANGED <<optVars, tables, views, totalRow, resultRows>>

\* FlushRest without the test of rowNumber
FlushRestAlways(table) == WriteDataInsertToBuffer(table, dataValueString)

\* lines 400-406: the rest of the batch after the loop
FlushRest(table) ==
    IF rowNumber > 0 THEN WriteDataInsertToBuffer(table, dataValueString) ELSE <<>>

\* lines 371, 400-406: rows.Next() is false, all rows were delivered
RowsEnd ==
    /\ pc = "scan"
    /\ cursor = resultRows
    /\ TableDone(out \o FlushRest(tables[idx]) \o DataEnd)
    /\ openRows' = openRows - 1
    /\ UNCHANGED <<textVars, sourceVars>>
    /\ UNCHANGED <<optVars, tables, views, dataVars, dbFailed>>

\* lines 371, 400-406: rows.Next() is false because the iteration failed;
\* rows.Err() is not consulted
RowsIterError ==
    /\ pc = "scan"
    /\ cursor < resultRows
    /\ TableDone(out \o FlushRest(tables[idx]) \o DataEnd)
    /\ openRows' = openRows - 1
    /\ dbFailed' = TRUE
    /\ UNCHANGED <<textVars, sourceVars>>
    /\ UNCHANGED <<optVars, tables, views, dataVars>>

\* ------------------------------------------------------ views and footer

\* lines 207-211: the table loop is over (writeTableData's locals are gone)
TablesDone ==
    /\ pc = "tloop"
    /\ idx > Len(tables)
    /\ out' = out \o CommitTransaction(o, "mid")
    /\ pc' = "vloop"
    /\ idx' = 1
    /\ totalRow' = 0
    /\ resultRows' = 0
    /\ cursor' = 0
    /\ rowNumber' = 0
    /\ dataValueString' = <<>>
    /\ UNCHANGED <<textVars, sourceVars>>
    /\ UNCHANGED <<optVars, dest, tables, views, allTotalRows,
                   openRows, dbFailed, ret>>

\* lines 214-225: one view
ViewStruct ==
    /\ pc = "vloop"
    /\ idx <= Len(views)
    /\ \E r \in CreateResults :
        LET view == views[idx]
            text == out \o DropView(o, view) \o WriteTableStruct("view", view, r)
        IN  /\ out' = text
            /\ IF r = "ok"
               THEN /\ idx' = idx + 1
                    /\ UNCHANGED <<pc, ret, dest, dbFailed, openRows>>
               ELSE /\ Return("err", text)
                    /\ dbFailed' = TRUE
                    /\ openRows' = IF LeavesRowsOpen(r) THEN openRows + 1 ELSE openRows
                    /\ UNCHANGED idx
    /\ UNCHANGED <<textVars, sourceVars>>
    /\ UNCHANGED <<optVars, tables, views, allTotalRows, dataVars>>

\* lines 227-249: footer, flush, return nil
Finish ==
    /\ pc = "vloop"
    /\ idx > Len(views)
    /\ out' = out \o Footer(o, Len(tables), allTotalRows)
    /\ Return("nil", out \o Footer(o, Len(tables), allTotalRows))
    /\ UNCHANGED <<textVars, sourceVars>>
    /\ UNCHANGED <<optVars, loopVars, dataVars, openRows, dbFailed>>

Next ==
    \/ WithDropTable
    \/ WithDropViews
    \/ WithData
    \/ WithTables
    \/ WithViews
    \/ WithAllTable
    \/ WithUseDatabase
    \/ WithTransaction
    \/ WithAllViews
    \/ DumpBegin
    \/ ExecUse
    \/ ResolveTables
    \/ ResolveViews(ViewListing)
    \/ TableStruct
    \/ CountRows(CountAnswers)
    \/ QueryRows(RowCounts)
    \/ RowsNext
    \/ RowsEnd
    \/ RowsIterError
    \/ TablesDone
    \/ ViewStruct
    \/ Finish

Spec == Init /\ [][Next]_vars

\* ------------------------------------------- a server with other databases

\* Dump against the same database on a server where another database holds
\* a view
NextServer ==
    \/ WithDropTable
    \/ WithDropViews
    \/ WithData
    \/ WithTables
    \/ WithViews
    \/ WithAllTable
    \/ WithUseDatabase
    \/ WithTransaction
    \/ WithAllViews
    \/ DumpBegin
    \/ ExecUse
    \/ ResolveTables
    \/ ResolveViews(ServerViewListing)
    \/ TableStruct
    \/ CountRows(CountAnswers)
    \/ QueryRows(RowCounts)
    \/ RowsNext
    \/ RowsEnd
    \/ RowsIterError
    \/ TablesDone
    \/ ViewStruct
    \/ Finish

SpecServer == Init /\ [][NextServer]_vars

\* ------------------------------------------- writeTableData on large tables

\* result sets around whole multiples of the statement size
BigRowCounts ==
    {0, 1} \cup {k * BatchSize + d - 1 : k \in 1..MaxBatches, d \in 0..2}

\* Dump(db, dbName, WithData(), WithTables("t1")) at its call of
\* writeTableData (line 199)
DataOption == [ZeroOption EXCEPT !.isData = TRUE, !.tables = <<"t1">>]

InitData ==
    /\ pc = "count"
    /\ o = DataOption
    /\ allTableOpt = FALSE
    /\ nOpts = 0
    /\ out = Preamble(DataOption) \o DropTable(DataOption, "t1")
                \o WriteTableStruct("tab", "t1", "ok") \o LockTables("t1")
    /\ dest = <<>>
    /\ tables = <<"t1">>
    /\ views = <<>>
    /\ idx = 1
    /\ allTotalRows = 0
    /\ totalRow = 0
    /\ resultRows = 0
    /\ cursor = 0
    /\ rowNumber = 0
    /\ dataValueString = <<>>
    /\ openRows = 0
    /\ dbFailed = FALSE
    /\ ret = "none"
    /\ data = <<>>
    /\ tupleTexts = <<>>
    /\ stmtText = <<>>
    /\ mergeInsert = 0
    /\ input = <<>>
    /\ pos = 0
    /\ pending = <<>>
    /\ executed = <<>>

NextData ==
    \/ CountRows(BigRowCounts)
    \/ QueryRows(BigRowCounts)
    \/ RowsNext
    \/ RowsEnd
    \/ RowsIterError

SpecData == InitData /\ [][NextData]_vars

\* ------------------------------------------- the text of an INSERT statement

\* SpecEscape follows one row through lines 371-416 at the level of the
\* characters written, where Spec and SpecData keep a tuple as one element.
\* Text is a sequence of characters; the fixed pieces of a format string and
\* the names are kept as one element each (none of them holds a quote or a
\* backslash), and Backtick stands for the backtick character.
Quote == "'"
Backslash == "\\"
Backtick == "BACKTICK"
Alphabet == {Quote, Backslash, "a"}
Strings == SeqsUpTo(Alphabet, MaxLen)

\* sql.NullString
NullCell == [Valid |-> FALSE, String |-> <<>>]
\* the cells of SpecEscape: NULL, every text of Strings (the empty text
\* included) and the four-letter text NULL
NullWord == <<"N", "U", "L", "L">>
Cells ==
    {NullCell} \cup {[Valid |-> TRUE, String |-> x] : x \in Strings \cup {NullWord}}

\* rows.Columns() of the table of SpecEscape
Columns == <<"c1", "c2">>

HasAt(s, pat, i) ==
    /\ i >= 1
    /\ i + Len(pat) - 1 <= Len(s)
    /\ SubSeq(s, i, i + Len(pat) - 1) = pat

\* strings.ReplaceAll: the non-overlapping occurrences of old, left to right
RECURSIVE ReplaceAll(_, _, _)
ReplaceAll(s, old, new) ==
    IF s = <<>> THEN <<>>
    ELSE IF HasAt(s, old, 1)
         THEN new \o ReplaceAll(SubSeq(s, Len(old) + 1, Len(s)), old, new)
         ELSE <<Head(s)>> \o ReplaceAll(Tail(s), old, new)

\* strings.Join
RECURSIVE Join(_, _)
Join(parts, sep) ==
    IF parts = <<>> THEN <<>>
    ELSE IF Len(parts) = 1 THEN Head(parts)
    ELSE Head(parts) \o sep \o Join(Tail(parts), sep)

\* RenderCell with NULL written as the empty literal
RenderCellNullAsEmpty(cell) ==
    IF cell.Valid
    THEN <<Quote>> \o ReplaceAll(cell.String, <<Quote>>, <<Quote, Quote>>) \o <<Quote>>
    ELSE <<Quote, Quote>>

\* lines 385-390: one cell as a literal
RenderCell(cell) ==
    IF cell.Valid
    THEN <<Quote>> \o ReplaceAll(cell.String, <<Quote>>, <<Quote, Quote>>) \o <<Quote>>
    ELSE <<"N", "U", "L", "L">>

\* lines 383-392: one row as a tuple
RenderTuple(cells) ==
    <<"(">> \o Join([c \in 1..Len(cells) |-> RenderCell(cells[c])], <<",">>) \o <<")">>

\* lines 361-366
ColumnNames(columns) ==
    Join([c \in 1..Len(columns) |-> <<Backtick, columns[c], Backtick>>], <<",">>)

\* line 410
InsertFormat(table, columnNames, tuples) ==
    <<"INSERT INTO ", Backtick, table, Backtick, " (">> \o columnNames
        \o <<") VALUES ">>
        \o Join(tuples, <<",">>) \o <<";\n">>

\* lines 410-415: the statement text as written
InsertText(table, columnNames, tuples) ==
    ReplaceAll(InsertFormat(table, columnNames, tuples),
               <<Backslash, Quote>>, <<Backslash, Backslash, Quote>>)

\* writeTableData on table t1 with one row of two cells, at rows.Scan
InitEscape ==
    /\ pc = "scan"
    /\ o = DataOption
    /\ allTableOpt = FALSE
    /\ nOpts = 0
    /\ out = <<>>
    /\ dest = <<>>
    /\ tables = <<"t1">>
    /\ views = <<>>
    /\ idx = 1
    /\ allTotalRows = 0
    /\ totalRow = 1
    /\ resultRows = 1
    /\ cursor = 0
    /\ rowNumber = 0
    /\ dataValueString = <<>>
    /\ openRows = 1
    /\ dbFailed = FALSE
    /\ ret = "none"
    /\ data \in [1..Len(Columns) -> Cells]
    /\ tupleTexts = <<>>
    /\ stmtText = <<>>
    /\ mergeInsert = 0
    /\ input = <<>>
    /\ pos = 0
    /\ pending = <<>>
    /\ executed = <<>>

\* lines 371-393: the row is read and its tuple appended to dataValueString
ScanRow ==
    /\ pc = "scan"
    /\ cursor < resultRows
    /\ tupleTexts' = Append(tupleTexts, RenderTuple(data))
    /\ cursor' = cursor + 1
    /\ rowNumber' = rowNumber + 1
    /\ pc' = "flush"
    /\ UNCHANGED <<optVars, out, dest, loopVars, totalRow, resultRows,
                   dataValueString, openRows, dbFailed, ret, data, stmtText,
                   sourceVars>>

\* lines 400-402: the batch is written
WriteInsert ==
    /\ pc = "flush"
    /\ rowNumber > 0
    /\ stmtText' = InsertText(tables[idx], ColumnNames(Columns), tupleTexts)
    /\ pc' = "written"
    /\ UNCHANGED <<optVars, out, dest, loopVars, dataVars, openRows, dbFailed,
                   ret, data, tupleTexts, sourceVars>>

NextEscape == ScanRow \/ WriteInsert

SpecEscape == InitEscape /\ [][NextEscape]_vars

\* ------------------------------------------------------- Source (restore)

\* Source and WithMergeInsert are called by src/example/source/main.go; their
\* code is not part of the sources, so this section follows section 4.5 of
\* the specification: the statements of the stream are executed in order;
\* with a positive merge size the tuples of consecutive INSERT statements of
\* one table are accumulated and executed as one INSERT of at most that many
\* tuples; with merge size 0 every statement is executed as read.

\* largest merge size and longest stream of SpecSource
MaxMerge == 2
MaxStmts == 4

\* the streams: every statement is a single-row INSERT into t1 or t2, or
\* some other statement; the row of the i-th statement is the tuple i
StmtKinds == {"t1", "t2", "other"}
Stmt(kind, i) ==
    IF kind = "other" THEN Ev("OTHER", "src", "", <<i>>)
    ELSE Ev("INSERT", "src", kind, <<i>>)
Streams ==
    {[i \in 1..Len(ks) |-> Stmt(ks[i], i)] : ks \in SeqsUpTo(StmtKinds, MaxStmts)}

InitSource ==
    /\ pc = "source"
    /\ o = ZeroOption
    /\ allTableOpt = FALSE
    /\ nOpts = 0
    /\ out = <<>>
    /\ dest = <<>>
    /\ tables = <<>>
    /\ views = <<>>
    /\ idx = 0
    /\ allTotalRows = 0
    /\ totalRow = 0
    /\ resultRows = 0
    /\ cursor = 0
    /\ rowNumber = 0
    /\ dataValueString = <<>>
    /\ openRows = 0
    /\ dbFailed = FALSE
    /\ ret = "none"
    /\ data = <<>>
    /\ tupleTexts = <<>>
    /\ stmtText = <<>>
    /\ mergeInsert \in 0..MaxMerge
    /\ input \in Streams
    /\ pos = 0
    /\ pending = <<>>
    /\ executed = <<>>

\* MergedInsert that keeps the first of the accumulated statements only
MergedInsertFirstOnly(stmts) == stmts[1]

\* one INSERT holding the tuples of the accumulated statements, in order
MergedInsert(stmts) ==
    Ev("INSERT", "src", stmts[1].n, Flatten([i \in 1..Len(stmts) |-> stmts[i].v]))

\* what is accumulated is executed as one INSERT, if there is anything
FlushPending == IF pending = <<>> THEN <<>> ELSE <<MergedInsert(pending)>>

\* the next statement of the stream is read
SourceRead ==
    /\ pc = "source"
    /\ pos < Len(input)
    /\ LET st == input[pos + 1] IN
       IF mergeInsert > 0 /\ st.k = "INSERT"
       THEN LET same == pending = <<>> \/ pending[1].n = st.n
                before == IF same THEN <<>> ELSE FlushPending
                acc == IF same THEN Append(pending, st) ELSE <<st>>
            IN  IF Len(acc) >= mergeInsert
                THEN /\ executed' = executed \o before \o <<MergedInsert(acc)>>
                     /\ pending' = <<>>
                ELSE /\ executed' = executed \o before
                     /\ pending' = acc
       ELSE /\ executed' = executed \o FlushPending \o <<st>>
            /\ pending' = <<>>
    /\ pos' = pos + 1
    /\ UNCHANGED <<pc, optVars, out, dest, loopVars, dataVars, openRows, dbFailed,
                   ret, textVars, mergeInsert, input>>

\* the stream has ended: what is still accumulated is executed
SourceEnd ==
    /\ pc = "source"
    /\ pos = Len(input)
    /\ executed' = executed \o FlushPending
    /\ pending' = <<>>
    /\ pc' = "sourced"
    /\ UNCHANGED <<optVars, out, dest, loopVars, dataVars, openRows, dbFailed,
                   ret, textVars, mergeInsert, input, pos>>

NextSource == SourceRead \/ SourceEnd

SpecSource == InitSource /\ [][NextSource]_vars

\* ---------------------------------------------------- reading the output

\* the positions of s
Indices(s) == 1..Len(s)

\* banners and blank lines are comments, everything else is an SQL statement
CommentKinds == {"HEADER", "STRUCT_BANNER", "DATA_BANNER", "NEWLINE", "FOOTER"}
IsSql(e) == e.k \notin CommentKinds

\* position of the last / next SQL statement before / after position i (0: none)
PrevSql(s, i) ==
    LET c == {j \in 1..(i - 1) : IsSql(s[j])} IN
    IF c = {} THEN 0 ELSE CHOOSE j \in c : \A h \in c : h <= j
NextSql(s, i) ==
    LET c == {j \in (i + 1)..Len(s) : IsSql(s[j])} IN
    IF c = {} THEN 0 ELSE CHOOSE j \in c : \A h \in c : j <= h

RegionRank(ph) ==
    CASE ph = "pre" -> 1 [] ph = "tab" -> 2 [] ph = "mid" -> 3
      [] ph = "view" -> 4 [] ph = "foot" -> 5

RegionKinds(ph) ==
    CASE ph = "pre" -> {"HEADER", "AUTOCOMMIT0", "START", "USE", "FK0"}
      [] ph = "tab" -> {"DROP_TABLE", "STRUCT_BANNER", "CREATE", "LOCK",
                        "DATA_BANNER", "INSERT", "NEWLINE", "UNLOCK"}
      [] ph = "mid" -> {"COMMIT", "AUTOCOMMIT1"}
      [] ph = "view" -> {"DROP_VIEW", "STRUCT_BANNER", "CREATE"}
      [] ph = "foot" -> {"AUTOCOMMIT0", "START", "FK1", "COMMIT", "AUTOCOMMIT1",
                         "FOOTER"}

IsCreateIn(e, ph) == e.k = "CREATE" /\ e.ph = ph
InPre(e) == e.ph = "pre"
IsTableCreate(e) == IsCreateIn(e, "tab")
IsViewCreate(e) == IsCreateIn(e, "view")

KindsOf(s) == [i \in 1..Len(s) |-> s[i].k]
NamesOf(s) == [i \in 1..Len(s) |-> s[i].n]

Succeeded == pc = "done" /\ ret = "nil"

\* ------------------------------------------------------------------ C1

\* C1: in every successful Dump the output is the header banner, then the
\* transaction preamble if wrapping is on, then USE if requested, then SET
\* FOREIGN_KEY_CHECKS=0, then one block per table of the table list in list
\* order, then one block per view, then the footer; nothing of a table block
\* comes after anything of a view block, and every INSERT of a table comes
\* after a create statement of that table.
C1_OutputSequence ==
    Succeeded =>
        /\ \A i, j \in Indices(out) :
              i < j => RegionRank(out[i].ph) <= RegionRank(out[j].ph)
        /\ \A i \in Indices(out) : out[i].k \in RegionKinds(out[i].ph)
        /\ KindsOf(SelectSeq(out, InPre)) =
              <<"HEADER">>
              \o (IF o.withTransaction THEN <<"AUTOCOMMIT0", "START">> ELSE <<>>)
              \o (IF o.withUseDatabase THEN <<"USE">> ELSE <<>>)
              \o <<"FK0">>
        /\ NamesOf(SelectSeq(out, IsTableCreate)) = tables
        /\ NamesOf(SelectSeq(out, IsViewCreate)) = views
        /\ out[Len(out)].k = "FOOTER"
        /\ \A i \in Indices(out) :
              out[i].k = "INSERT" =>
                  \E j \in 1..(i - 1) : IsTableCreate(out[j]) /\ out[j].n = out[i].n

\* a successful dump with transaction wrapping that wrote an INSERT statement
\* and a view block
C1_Witness ==
    /\ Succeeded
    /\ o.withTransaction
    /\ \E i \in Indices(out) : out[i].k = "INSERT"
    /\ \E i \in Indices(out) : IsViewCreate(out[i])

\* ------------------------------------------------------------------ C2

\* writeTableData has returned nil for the table whose LOCK is the last one
DataReturned == pc = "tloop" /\ idx > 1 /\ o.isData

IsLock(e) == e.k = "LOCK"
IsInsert(e) == e.k = "INSERT"

LastLock ==
    LET c == {i \in Indices(out) : IsLock(out[i])} IN
    IF c = {} THEN 0 ELSE CHOOSE i \in c : \A h \in c : h <= i

\* the tuple lists of the INSERT statements written for that table
TableInserts ==
    LET st == SelectSeq(SubSeq(out, LastLock + 1, Len(out)), IsInsert)
    IN  [k \in 1..Len(st) |-> st[k].v]

CeilDiv(m, n) == (m + n - 1) \div n

\* C2: a table whose row query returns M rows gets ceil(M/N) INSERT
\* statements, N = 600; all but the last hold N tuples, the last holds M mod N
\* (N when N divides M), none holds more than N, and the tuples are the rows
\* once each in scan order.  (Stated for runs in which no round trip failed.)
C2_BatchLaw ==
    (DataReturned /\ ~dbFailed) =>
        LET st == TableInserts
            M == resultRows
        IN  /\ Len(st) = CeilDiv(M, BatchSize)
            /\ \A k \in 1..(Len(st) - 1) : Len(st[k]) = BatchSize
            /\ Len(st) > 0 =>
                 Len(st[Len(st)]) =
                     IF M % BatchSize = 0 THEN BatchSize ELSE M % BatchSize
            /\ \A k \in 1..Len(st) : Len(st[k]) <= BatchSize
            /\ Flatten(st) = [i \in 1..M |-> Tuple(i)]

\* ------------------------------------------------------------------ C3

\* position of the create statement of the table loop for table t (0: none)
TableCreateAt(t) ==
    LET c == {i \in Indices(out) : IsTableCreate(out[i]) /\ out[i].n = t} IN
    IF c = {} THEN 0 ELSE CHOOSE i \in c : \A h \in c : i <= h

\* C3: for every foreign key referencing -> referenced between two dumped
\* tables, the block of the referenced table is written before the block of
\* the referencing table.
C3_ReferencedFirst ==
    \A e \in ForeignKeys :
        (~dbFailed /\ TableCreateAt(e[1]) # 0 /\ TableCreateAt(e[2]) # 0)
            => TableCreateAt(e[2]) < TableCreateAt(e[1])

\* ------------------------------------------------------------------ C4

\* Reading a statement text back: a literal is NULL or a single-quoted
\* string in which two quotes stand for one quote and every other character
\* stands for itself.  [ok, cell, next]
ParseFailed == [ok |-> FALSE, cell |-> NullCell, next |-> 0]

RECURSIVE ParseQuoted(_, _, _)
ParseQuoted(s, i, acc) ==
    IF i > Len(s) THEN ParseFailed
    ELSE IF s[i] = Quote
         THEN IF i < Len(s) /\ s[i + 1] = Quote
              THEN ParseQuoted(s, i + 2, Append(acc, Quote))
              ELSE [ok |-> TRUE, cell |-> [Valid |-> TRUE, String |-> acc], next |-> i + 1]
         ELSE ParseQuoted(s, i + 1, Append(acc, s[i]))

ParseLiteral(s, i) ==
    IF HasAt(s, <<"N", "U", "L", "L">>, i)
    THEN [ok |-> TRUE, cell |-> NullCell, next |-> i + 4]
    ELSE IF i <= Len(s) /\ s[i] = Quote THEN ParseQuoted(s, i + 1, <<>>)
    ELSE ParseFailed

\* the cells of the tuple whose first literal starts at i; <<>> with ok
\* FALSE when the text is no tuple
RECURSIVE ParseCells(_, _, _)
ParseCells(s, i, acc) ==
    LET lit == ParseLiteral(s, i) IN
    IF ~lit.ok \/ lit.next > Len(s) THEN [ok |-> FALSE, cells |-> <<>>]
    ELSE IF s[lit.next] = "," THEN ParseCells(s, lit.next + 1, Append(acc, lit.cell))
    ELSE IF s[lit.next] = ")" THEN [ok |-> TRUE, cells |-> Append(acc, lit.cell)]
    ELSE [ok |-> FALSE, cells |-> <<>>]

\* the first tuple after VALUES
ParseFirstTuple(s) ==
    LET c == {i \in 1..Len(s) : s[i] = ") VALUES "} IN
    IF c = {} THEN [ok |-> FALSE, cells |-> <<>>]
    ELSE LET v == CHOOSE i \in c : \A h \in c : i <= h IN
         IF HasAt(s, <<"(">>, v + 1) THEN ParseCells(s, v + 2, <<>>)
         ELSE [ok |-> FALSE, cells |-> <<>>]

\* C4: the literals of the statement written for a row, read back as
\* single-quoted SQL literals, are the values of the row.
C4_RoundTrip ==
    pc = "written" => ParseFirstTuple(stmtText) = [ok |-> TRUE, cells |-> data]

\* ------------------------------------------------------------------ C5

\* C5: when a database round trip of Dump has failed, Dump returns a non-nil
\* error (the part of the claim about the returned value: no failure is
\* followed by a nil return).
C5_FailureReturned ==
    (pc = "done" /\ dbFailed) => ret = "err"

\* ------------------------------------------------------------------ C6

\* the statements M rows are to give, whatever the COUNT query said
Batches(M) ==
    [k \in 1..CeilDiv(M, BatchSize) |->
        [j \in 1..(IF k * BatchSize <= M THEN BatchSize ELSE M - (k - 1) * BatchSize)
            |-> Tuple((k - 1) * BatchSize + j)]]

\* C6: the INSERT statements of a table are those of the rows its row query
\* returns, whatever the COUNT query answered (0 and a failed COUNT
\* included).  (Stated for runs in which the row iteration did not fail.)
C6_CountIndependent ==
    (DataReturned /\ ~(totalRow > 0 /\ cursor < resultRows)) =>
        TableInserts = Batches(resultRows)

\* ------------------------------------------------------------------ C7

\* number of tuples in the INSERT statements of s
RECURSIVE TuplesWritten(_)
TuplesWritten(s) ==
    IF s = <<>> THEN 0
    ELSE (IF Head(s).k = "INSERT" THEN Len(Head(s).v) ELSE 0) + TuplesWritten(Tail(s))

\* C7: after a successful Dump with data, the 'Table Rows' number of the
\* footer is the number of tuples written in all INSERT statements.
C7_FooterRows ==
    (Succeeded /\ o.isData /\ ~dbFailed) => out[Len(out)].v[2] = TuplesWritten(out)

\* ------------------------------------------------------------------ C8

\* C8: the list the table loop iterates holds no name the database
\* classifies as a view.
C8_NoViewInTableLoop ==
    (pc = "tloop" /\ ~dbFailed) => Range(tables) \cap DbViews = {}

\* ------------------------------------------------------------------ C9

\* C9: the table set Dump starts from (tables, before the views are taken
\* out) is the explicit WithTables list exactly when that list is not empty
\* and WithAllTable was not passed; otherwise it is the table listing of the
\* database.  The options are applied in every order.
C9_TableSelection ==
    pc = "views" =>
        tables = IF Len(o.tables) > 0 /\ ~allTableOpt THEN o.tables ELSE TableListing

\* both an explicit list and WithAllTable were passed: the listing is used
C9_Witness ==
    /\ pc = "views"
    /\ Len(o.tables) > 0
    /\ allTableOpt
    /\ tables = TableListing
    /\ tables # o.tables

\* ------------------------------------------------------------------ C10

DropKinds == {"DROP_TABLE", "DROP_VIEW"}

\* the drop statement that belongs to a create statement written in region ph
DropKindFor(ph) == IF ph = "tab" THEN "DROP_TABLE" ELSE "DROP_VIEW"
DropFlagFor(ph) == IF ph = "tab" THEN o.isDropTable ELSE o.isDropView

\* C10: every object the table loop reaches gets DROP TABLE IF EXISTS ahead
\* of its structure banner exactly when drop-tables is set, every object the
\* view loop reaches gets DROP VIEW IF EXISTS exactly when drop-views is set;
\* a create statement is directly preceded (comments aside) by the drop of
\* the same name exactly when the flag of its loop is set; and every drop
\* statement written is followed, as
\* the next SQL statement, by the create statement of the same object (it is
\* the last statement only of a dump that failed on that object's SHOW
\* CREATE).
C10_DropBeforeCreate ==
    /\ \A i \in Indices(out) :
          out[i].k = "STRUCT_BANNER" =>
              DropFlagFor(out[i].ph) <=>
                  /\ i > 1
                  /\ out[i - 1].k = DropKindFor(out[i].ph)
                  /\ out[i - 1].n = out[i].n
    /\ \A i \in Indices(out) :
          out[i].k = "CREATE" =>
              LET p == PrevSql(out, i) IN
              DropFlagFor(out[i].ph) <=>
                  /\ p # 0
                  /\ out[p].k = DropKindFor(out[i].ph)
                  /\ out[p].n = out[i].n
    /\ \A i \in Indices(out) :
          out[i].k \in DropKinds =>
              LET q == NextSql(out, i) IN
              /\ out[i].k = DropKindFor(out[i].ph)
              /\ DropFlagFor(out[i].ph)
              /\ IF q = 0 THEN pc = "done" /\ ret = "err"
                 ELSE /\ out[q].k = "CREATE"
                      /\ out[q].n = out[i].n
                      /\ out[q].ph = out[i].ph

\* a successful dump with both flags set that dropped a table and a view
C10_Witness ==
    /\ Succeeded
    /\ o.isDropTable
    /\ o.isDropView
    /\ \E i \in Indices(out) : out[i].k = "DROP_TABLE"
    /\ \E i \in Indices(out) : out[i].k = "DROP_VIEW"

\* ------------------------------------------------------------------ C11

IsLockOrUnlock(e) == e.k \in {"LOCK", "UNLOCK"}

\* position of the last LOCK or UNLOCK before position i (0: none)
PrevLocking(s, i) ==
    LET c == {j \in 1..(i - 1) : IsLockOrUnlock(s[j])} IN
    IF c = {} THEN 0 ELSE CHOOSE j \in c : \A h \in c : h <= j

\* C11: with data enabled, LOCK TABLES and UNLOCK TABLES alternate in the
\* output, starting with LOCK, and the output of a Dump that has returned
\* (with nil or with an error, an error of the row serialization included,
\* with or without transaction wrapping) ends the alternation with UNLOCK;
\* every INSERT of table t has LOCK TABLES t as the last lock statement
\* before it; with data disabled no LOCK, INSERT or UNLOCK is written.
C11_LockBracketing ==
    LET lk == SelectSeq(out, IsLockOrUnlock) IN
    /\ \A i \in Indices(lk) : lk[i].k = IF i % 2 = 1 THEN "LOCK" ELSE "UNLOCK"
    /\ pc = "done" => Len(lk) % 2 = 0
    /\ \A i \in Indices(out) :
          out[i].k = "INSERT" =>
              LET p == PrevLocking(out, i) IN
              /\ p # 0
              /\ out[p].k = "LOCK"
              /\ out[p].n = out[i].n
    /\ ~o.isData =>
          \A i \in Indices(out) : out[i].k \notin {"LOCK", "INSERT", "UNLOCK"}

\* a dump with transaction wrapping that wrote the rows of one table and was
\* aborted by an error of the row serialization of the next one
C11_Witness ==
    /\ pc = "done"
    /\ ret = "err"
    /\ o.isData
    /\ o.withTransaction
    /\ \E i \in Indices(out) : out[i].k = "INSERT"
    /\ out[Len(out)].k = "UNLOCK"
    /\ out[Len(out) - 1].k = "DATA_BANNER"

\* ------------------------------------------------------------------ C12

TransactionKinds == {"AUTOCOMMIT0", "START", "COMMIT", "AUTOCOMMIT1"}
IsStartOrCommit(e) == e.k \in {"START", "COMMIT"}

\* position of the last START TRANSACTION or COMMIT before position i (0: none)
PrevStartOrCommit(s, i) ==
    LET c == {j \in 1..(i - 1) : IsStartOrCommit(s[j])} IN
    IF c = {} THEN 0 ELSE CHOOSE j \in c : \A h \in c : h <= j

\* position i of s lies inside an open transaction bracket
InTransaction(s, i) ==
    LET p == PrevStartOrCommit(s, i) IN p # 0 /\ s[p].k = "START"

\* C12: in a successful Dump with transaction wrapping, START TRANSACTION and
\* COMMIT alternate, starting with START and ending with COMMIT; each START
\* directly follows SET AUTOCOMMIT=0 and each COMMIT is directly followed by
\* SET AUTOCOMMIT=1; there are two brackets: everything of the table blocks
\* lies inside the first one, everything of the view blocks lies outside any
\* open bracket, and the second one is opened after the last view block and
\* committed ahead of the footer banner.  Without wrapping none of the four
\* statements is written.
C12_TransactionWrapping ==
    Succeeded =>
        IF o.withTransaction
        THEN LET tx == SelectSeq(out, IsStartOrCommit) IN
             /\ KindsOf(tx) = <<"START", "COMMIT", "START", "COMMIT">>
             /\ \A i \in Indices(out) :
                   /\ out[i].k = "START" => i > 1 /\ out[i - 1].k = "AUTOCOMMIT0"
                   /\ out[i].k = "AUTOCOMMIT0" => i < Len(out) /\ out[i + 1].k = "START"
                   /\ out[i].k = "COMMIT" => i < Len(out) /\ out[i + 1].k = "AUTOCOMMIT1"
                   /\ out[i].k = "AUTOCOMMIT1" => i > 1 /\ out[i - 1].k = "COMMIT"
             /\ \A i \in Indices(out) :
                   out[i].ph = "tab" =>
                       /\ InTransaction(out, i)
                       /\ \A j \in 1..(i - 1) : out[j].k # "COMMIT"
             /\ \A i \in Indices(out) :
                   out[i].ph = "view" => ~InTransaction(out, i)
             /\ \A i, j \in Indices(out) :
                   (out[i].ph = "view" /\ out[j].k = "START" /\ out[j].ph # "pre")
                       => i < j
             /\ \A i \in Indices(out) :
                   out[i].k = "FOOTER" => ~InTransaction(out, i)
        ELSE \A i \in Indices(out) : out[i].k \notin TransactionKinds

\* a successful dump with wrapping that wrote a table block with rows and a
\* view block
C12_Witness ==
    /\ Succeeded
    /\ o.withTransaction
    /\ o.isData
    /\ \E i \in Indices(out) : out[i].k = "INSERT"
    /\ \E i \in Indices(out) : out[i].ph = "view" /\ out[i].k = "CREATE"
    /\ \E i \in Indices(out) : out[i].ph = "tab" /\ out[i].k = "UNLOCK"

\* ------------------------------------------------------------------ C13

\* the statements that create, drop or fill an object
ObjectKinds == {"CREATE", "DROP_TABLE", "DROP_VIEW", "INSERT"}

\* the positions of the statements of kind k in s
PositionsOf(s, k) == {i \in Indices(s) : s[i].k = k}

\* C13: SET FOREIGN_KEY_CHECKS=0 is written once, ahead of everything of the
\* table and view blocks, so every create, drop and INSERT statement of any
\* output comes after it; a Dump that reaches its footer writes SET
\* FOREIGN_KEY_CHECKS=1 once, in the footer, after everything of the table
\* and view blocks and ahead of the footer banner, so every create, drop and
\* INSERT statement lies between the two and the last of the two is the one
\* that switches the checks on.
C13_ForeignKeyChecks ==
    /\ pc # "opts" => Cardinality(PositionsOf(out, "FK0")) = 1
    /\ \A i \in Indices(out) :
          (out[i].k \in ObjectKinds \/ out[i].ph \in {"tab", "mid", "view"})
              => \E j \in 1..(i - 1) : out[j].k = "FK0"
    /\ \A i \in Indices(out) : out[i].k = "FK1" => out[i].ph = "foot"
    /\ Succeeded =>
          /\ Cardinality(PositionsOf(out, "FK1")) = 1
          /\ \A q \in PositionsOf(out, "FK1") :
                /\ \A i \in Indices(out) :
                      (out[i].k \in ObjectKinds \/ out[i].ph \in {"tab", "mid", "view"})
                          => i < q
                /\ \A j \in PositionsOf(out, "FK0") : j < q
                /\ \E f \in (q + 1)..Len(out) : out[f].k = "FOOTER"

\* a successful dump that wrote rows, a table block and a dropped and
\* created view
C13_Witness ==
    /\ Succeeded
    /\ \E i \in Indices(out) : out[i].k = "INSERT"
    /\ \E i \in Indices(out) : out[i].k = "DROP_VIEW"
    /\ \E i \in Indices(out) : IsViewCreate(out[i])
    /\ \E i \in Indices(out) : out[i].k = "FK1"

\* ------------------------------------------------------------------ C14

Failed == pc = "done" /\ ret = "err"

\* C14: when Dump has returned an error, the destination writer holds all
\* the text written to the buffer, a round trip has failed and no footer
\* banner is there; no step takes written text back (the output of every
\* step extends the output before it); and Dump does nothing after its
\* return, the failed round trip is not made again.
C14_ErrorReturn ==
    /\ [](Failed =>
            /\ dest = out
            /\ dbFailed
            /\ \A i \in Indices(out) : out[i].k # "FOOTER")
    /\ [][/\ Len(out') >= Len(out)
          /\ SubSeq(out', 1, Len(out)) = out]_vars
    /\ [][pc # "done"]_vars

\* a dump with data that wrote the rows of its tables and failed on the SHOW
\* CREATE of a view: the text of the tables is in the destination
C14_Witness ==
    /\ Failed
    /\ \E i \in Indices(dest) : dest[i].k = "INSERT"
    /\ dest[Len(dest)].k = "STRUCT_BANNER"
    /\ dest[Len(dest)].ph = "view"

\* ------------------------------------------------------------------ C15

\* C15: when writeTableData has returned for a table whose row query
\* returned zero rows, no INSERT statement was written for the table, and
\* its block is the structure banner, the create statement, LOCK TABLES, the
\* records banner, the closing blank line and UNLOCK TABLES.
C15_ZeroRows ==
    (DataReturned /\ resultRows = 0) =>
        LET l == LastLock
            t == tables[idx - 1]
        IN  /\ TableInserts = <<>>
            /\ l > 2
            /\ out[l - 2] = Ev("STRUCT_BANNER", "tab", t, <<>>)
            /\ out[l - 1] = Ev("CREATE", "tab", t, <<>>)
            /\ out[l].n = t
            /\ SubSeq(out, l + 1, Len(out)) =
                   <<Ev("DATA_BANNER", "tab", t, <<totalRow>>),
                     Ev("NEWLINE", "tab", "", <<>>),
                     Ev("UNLOCK", "tab", "", <<>>)>>

\* the COUNT query answered 1, the row loop was entered and the row query
\* held no row
C15_Witness ==
    /\ DataReturned
    /\ resultRows = 0
    /\ totalRow > 0
    /\ out[Len(out)].k = "UNLOCK"

\* ------------------------------------------------------------------ C16

\* the stream holds single-row INSERT statements of one table only
SameTableInserts ==
    \A i \in Indices(input) : input[i].k = "INSERT" /\ input[i].n = input[1].n

\* C16: with a positive merge size N, Source fed M single-row INSERT
\* statements of one table has executed, at the end of the stream, exactly
\* ceil(M/N) INSERT statements of that table, none with more than N tuples,
\* whose tuples are the M tuples of the stream in stream order; with merge
\* size 0 the statements executed are at every moment the statements read
\* so far, unchanged.
C16_RestoreMerge ==
    /\ (pc = "sourced" /\ mergeInsert > 0 /\ SameTableInserts) =>
          /\ Len(executed) = CeilDiv(Len(input), mergeInsert)
          /\ \A k \in Indices(executed) :
                /\ executed[k].k = "INSERT"
                /\ executed[k].n = input[1].n
                /\ Len(executed[k].v) <= mergeInsert
          /\ Flatten([k \in 1..Len(executed) |-> executed[k].v])
                = Flatten([i \in 1..Len(input) |-> input[i].v])
    /\ (pc \in {"source", "sourced"} /\ mergeInsert = 0) =>
          executed = SubSeq(input, 1, pos)

\* merge size 2 and three single-row INSERT statements of one table: two
\* statements were executed
C16_Witness ==
    /\ pc = "sourced"
    /\ mergeInsert = 2
    /\ Len(input) = 3
    /\ SameTableInserts
    /\ Len(executed) = 2
    /\ Len(executed[1].v) = 2

\* ------------------------------------------------------------------ C17

\* the literals of the two-column tuple written in text s between positions
\* from and to (the parentheses); no value of Cells holds a comma, so the
\* one comma between them separates the two literals
LiteralsBetween(s, from, to) ==
    LET c == CHOOSE i \in (from + 1)..(to - 1) : s[i] = ","
    IN  <<SubSeq(s, from + 1, c - 1), SubSeq(s, c + 1, to - 1)>>

\* a text that starts and ends with a single quote
IsQuoted(r) == Len(r) >= 2 /\ r[1] = Quote /\ r[Len(r)] = Quote

\* the rendering r fits the cell: the bare word NULL for a NULL cell, a
\* quoted literal for any other, '' for the empty text and 'NULL' for the
\* text NULL
RenderingFits(cell, r) ==
    /\ ~cell.Valid <=> r = NullWord
    /\ cell.Valid <=> IsQuoted(r)
    /\ (cell.Valid /\ cell.String = <<>>) <=> r = <<Quote, Quote>>
    /\ (cell.Valid /\ cell.String = NullWord) <=> r = <<Quote>> \o NullWord \o <<Quote>>

\* C17: in the tuple built for a row and in the INSERT statement written
\* for it, a NULL cell is the bare word NULL and every other cell is a
\* single-quoted literal, so NULL, the empty text and the text NULL are
\* written in three different ways.
C17_NullRendering ==
    /\ pc \in {"flush", "written"} =>
          LET t == tupleTexts[1]
              r == LiteralsBetween(t, 1, Len(t))
          IN  /\ t[1] = "(" /\ t[Len(t)] = ")"
              /\ \A k \in 1..2 : RenderingFits(data[k], r[k])
    /\ pc = "written" =>
          LET v == CHOOSE i \in Indices(stmtText) : stmtText[i] = ") VALUES "
              e == CHOOSE i \in Indices(stmtText) : stmtText[i] = ";\n"
              r == LiteralsBetween(stmtText, v + 1, e - 1)
          IN  /\ stmtText[v + 1] = "(" /\ stmtText[e - 1] = ")"
              /\ \A k \in 1..2 : RenderingFits(data[k], r[k])

\* a written row whose cells are NULL and the text NULL
C17_Witness ==
    /\ pc = "written"
    /\ data[1] = NullCell
    /\ data[2] = [Valid |-> TRUE, String |-> NullWord]

\* ------------------------------------------------------------------ C18

\* C18: the views Dump works with are the views of the active database: a
\* view of another database takes no table out of the table list (with all
\* tables selected, every base table of the listing is still in the list
\* the table loop starts with) and is not put into the view phase (with all
\* views selected, the views are views of the active database).  (Stated
\* for runs in which no round trip failed.)
C18_OwnViewsOnly ==
    (pc = "tloop" /\ ~dbFailed) =>
        /\ o.isAllTable => BaseTables \subseteq Range(tables)
        /\ o.isAllViews => Range(views) \subseteq DbViews

\* ------------------------------------------------------------------ C19

\* C19: once the options are applied, no step of Dump changes the slice
\* given to WithTables (o.tables shares its array with the caller's slice):
\* it holds the same names in the same order when Dump returns.
C19_CallerSliceUnchanged ==
    [][pc # "opts" => o'.tables = o.tables]_vars

\* ------------------------------------------------------------------ C20

\* C20: when Dump has returned, with nil or with an error, no result set it
\* opened is still open.
C20_ResultSetsClosed ==
    pc = "done" => openRows = 0

=============================================================================
